---- MODULE Spec2Model ----
(***************************************************************************)
(* Event pattern engine of claude_code_files.                              *)
(*                                                                         *)
(*   analysis/log_analyzer.py      PatternDetector (incremental detectors) *)
(*                                 LogEvent, LogAnalyzer (file analysis)   *)
(*   hooks/session_improvement.py  analyze_session (batch pass)            *)
(*   dashboard/.../backend/main.py analytics cache, WebSocket broadcasts   *)
(*                                                                         *)
(* Python dicts are functions whose DOMAIN is the set of keys present;     *)
(* strings that are tokenised are sequences of one-character strings.      *)
(***************************************************************************)
EXTENDS Integers, Sequences, FiniteSets, TLC

VARIABLES
    command_timings,      \* PatternDetector.command_timings: tool name -> list of times
    agent_success_rates,  \* PatternDetector.agent_success_rates: agent name -> list of flags
    recent_events,        \* PatternDetector.recent_events: deque(maxlen=1000)
    analysis,             \* the dict returned by the last analyze_event call
    arrived,              \* every event handed to analyze_event so far, in order
    feed,                 \* the shape of the event stream being analysed
    analysis_results,     \* LogAnalyzer.analyze_log_file: the results dict being built
    returned,             \* what analyze_log_file returned; None while its loop runs
    earlier_files,        \* the earlier analyze_log_file calls: last event and result
    files,                \* ~/.claude/logs: file name -> list of JSON entries
    session_call,         \* the last analyze_session call: its event and what it produced
    now,                  \* datetime.now(), counted in calls
    log_entry,            \* a raw entry of a log file, as parsed from JSON
    log_event,            \* the LogEvent made of log_entry; None before it is made
    event_datetime,       \* what reading log_event.datetime gave; None before it is read
    text_a, text_b,       \* the two texts handed to _similarity_score
    scores,               \* the scores returned for (text_a, text_b) and (text_b, text_a)
    websocket_connections,    \* main.websocket_connections: list of WebSocket objects
    cached_analytics,     \* main.cached_analytics: {} until a result is cached
    last_update,          \* main.last_update: None or the time of the last caching
    wall_clock,                \* datetime.now() of the dashboard, in seconds
    dashboard_logs,       \* the log directory: writes so far, any readable file now
    sockets,              \* WebSocket -> client still there, position of its endpoint
    notify_tasks,         \* the notify_clients tasks created so far
    calls,                \* every get_analytics_data call so far: caller, time, result
    removals              \* every websocket_connections.remove(ws) so far

detector_vars ==
    <<command_timings, agent_success_rates, recent_events, analysis, arrived, feed,
      analysis_results, returned, earlier_files>>

session_vars == <<files, session_call, now>>

scorer_vars == <<text_a, text_b, scores>>

event_vars == <<log_entry, log_event, event_datetime>>

dashboard_vars ==
    <<websocket_connections, cached_analytics, last_update, wall_clock, dashboard_logs,
      sockets, notify_tasks, calls, removals>>

vars == <<detector_vars, session_vars, scorer_vars, event_vars, dashboard_vars>>

----------------------------------------------------------------------------
(* Bounds of the model.                                                    *)

MaxTail == 6        \* freely chosen events after the repeated run of a stream
MaxHead == 2        \* freely chosen events before the run of a window stream
WindowTail == 4     \* freely chosen events after the run of a window stream
MaxRun == 8         \* entries of a session log made of tool uses only
MaxMixed == 4       \* entries of a session log of mixed entries
MaxBroken == 7      \* entries of a session log of tool uses and other entries
MaxCalls == 2       \* analyze_session calls per session
MaxStrLen == 3      \* characters of a text handed to the similarity scorer
MaxFiles == 2       \* analyze_log_file calls on one LogAnalyzer
MaxFileLen == 2     \* events of a log file when several files are analysed
MaxWrites == 2      \* modifications of the dashboard's log files
MaxRequests == 3    \* get_analytics_data calls
MaxTicks == 2       \* readings of the dashboard's clock after the first
TickSeconds == 15   \* seconds between two readings of the clock

(* Constants of the program.                                               *)

RecentMaxLen == 1000      \* deque(maxlen=1000)
TimingWindow == 20        \* command_timings[tool_name][-20:]
MinTimingSamples == 5     \* len(recent_timings) > 5
SuccessWindow == 10       \* agent_success_rates[agent_name][-10:]
MinSuccessSamples == 5    \* len(recent_successes) >= 5
RecurringMin == 3         \* len(similar_errors) > 3
MinDurations == 10        \* len(recent_durations) > 10
CacheSeconds == 30        \* timedelta(seconds=30)

----------------------------------------------------------------------------
(* Python helpers.                                                         *)

\* dict.get(key, default)
Get(d, k, default) == IF k \in DOMAIN d THEN d[k] ELSE default

\* d[k] = v
Put(d, k, v) == [x \in (DOMAIN d) \cup {k} |-> IF x = k THEN v ELSE d[x]]

\* defaultdict(list)[k]
ListOf(d, k) == IF k \in DOMAIN d THEN d[k] ELSE <<>>

\* xs[-n:]
WholeList(xs, n) == xs

LastN(xs, n) == IF Len(xs) <= n THEN xs ELSE SubSeq(xs, Len(xs) - n + 1, Len(xs))

\* sorted(xs)[k-1]
KthSmallest(xs, k) ==
    CHOOSE v \in {xs[i] : i \in DOMAIN xs} :
        /\ Cardinality({i \in DOMAIN xs : xs[i] <= v}) >= k
        /\ Cardinality({i \in DOMAIN xs : xs[i] < v}) < k

\* np.median(xs) as a fraction num/den: the middle value, or the mean of the two
\* middle values of an even-length list.
Median(xs) ==
    LET n == Len(xs) IN
    IF n % 2 = 1
    THEN [num |-> KthSmallest(xs, (n + 1) \div 2), den |-> 1]
    ELSE [num |-> KthSmallest(xs, n \div 2) + KthSmallest(xs, n \div 2 + 1), den |-> 2]

----------------------------------------------------------------------------
(* Similarity scorer: PatternDetector._similarity_score.                   *)

Whitespace == {" "}

\* str.lower() on one character
LowerChar(c) == IF c = "A" THEN "a" ELSE IF c = "B" THEN "b" ELSE c

\* str.lower()
Lower(s) == [i \in DOMAIN s |-> LowerChar(s[i])]

\* set(str.split()): the maximal runs of non-whitespace characters
Words(s) ==
    LET n == Len(s)
        IsWs(i) == s[i] \in Whitespace
        Starts == {i \in 1..n : ~IsWs(i) /\ (i = 1 \/ IsWs(i - 1))}
        EndOf(i) == CHOOSE j \in i..n :
                        /\ \A k \in i..j : ~IsWs(k)
                        /\ (j = n \/ IsWs(j + 1))
    IN {SubSeq(s, i, EndOf(i)) : i \in Starts}

\* len(intersection) / len(union) as a fraction
JaccardAsym(words1, words2) ==
    [num |-> Cardinality(words1 \cap words2), den |-> Cardinality(words1)]

Jaccard(words1, words2) ==
    [num |-> Cardinality(words1 \cap words2), den |-> Cardinality(words1 \cup words2)]

Zero == [num |-> 0, den |-> 1]

\* the scorer with only the first text case-folded
similarity_score_cased(text1, text2) ==
    LET words1 == Words(Lower(text1))
        words2 == Words(text2)
    IN IF words1 = {} \/ words2 = {} THEN Zero ELSE Jaccard(words1, words2)

similarity_score(text1, text2) ==
    LET words1 == Words(Lower(text1))
        words2 == Words(Lower(text2))
    IN IF words1 = {} \/ words2 = {} THEN Zero ELSE Jaccard(words1, words2)

\* score > 0.8
AtLeast08(score) == 5 * score.num >= 4 * score.den

Above08(score) == 5 * score.num > 4 * score.den

----------------------------------------------------------------------------
(* Events: LogEvent(event_type, data, metrics); timestamp is the arrival   *)
(* number, which makes every processed event distinct.                     *)

NoDict == <<>>      \* the empty dict {}

ToolUse(tool, time) ==
    [event_type |-> "tool_use", data |-> [tool_name |-> tool],
     metrics |-> [execution_time |-> time]]

ToolError(tool, text) ==
    [event_type |-> "tool_use", data |-> [tool_name |-> tool, error |-> text],
     metrics |-> NoDict]

AgentComplete(agent, ok) ==
    [event_type |-> "agent_complete", data |-> [agent_name |-> agent, success |-> ok],
     metrics |-> NoDict]

SessionEnd(duration) ==
    [event_type |-> "session_end", data |-> NoDict,
     metrics |-> [session_duration |-> duration]]

PromptSubmit == [event_type |-> "prompt_submit", data |-> NoDict, metrics |-> NoDict]

Stamp(shape, n) ==
    [event_type |-> shape.event_type, data |-> shape.data,
     metrics |-> shape.metrics, timestamp |-> n]

Shape(event) ==
    [event_type |-> event.event_type, data |-> event.data, metrics |-> event.metrics]

----------------------------------------------------------------------------
(* PatternDetector._detect_performance_issues                              *)

\* bool(event.metrics): an empty dict is falsy
HasMetrics(event) == DOMAIN event.metrics # {}

\* self.command_timings[tool_name].append(execution_time)
RecordTiming(timings, tool_name, execution_time) ==
    Put(timings, tool_name, Append(ListOf(timings, tool_name), execution_time))

\* len(recent_timings) > 5
EnoughTimingsOff(recent_timings) == Len(recent_timings) >= MinTimingSamples

EnoughTimings(recent_timings) == Len(recent_timings) > MinTimingSamples

\* execution_time > baseline * 2
IsSlow(execution_time, baseline) == execution_time * baseline.den > baseline.num * 2

\* 'high' if execution_time > baseline * 3 else 'medium'
SeverityTwice(execution_time, baseline) ==
    IF execution_time * baseline.den > baseline.num * 2 THEN "high" ELSE "medium"

Severity(execution_time, baseline) ==
    IF execution_time * baseline.den > baseline.num * 3 THEN "high" ELSE "medium"

\* the detector without its test of the event type
detect_performance_issues_any(timings, event) ==
    IF HasMetrics(event)
    THEN LET execution_time == Get(event.metrics, "execution_time", 0)
             tool_name == Get(event.data, "tool_name", "unknown")
             recorded == RecordTiming(timings, tool_name, execution_time)
             recent_timings == LastN(recorded[tool_name], TimingWindow)
             baseline == Median(recent_timings)
         IN [timings |-> recorded,
             issues |->
                IF EnoughTimings(recent_timings) /\ IsSlow(execution_time, baseline)
                THEN << [type |-> "slow_tool_execution",
                         tool_name |-> tool_name,
                         execution_time |-> execution_time,
                         baseline |-> baseline,
                         severity |-> Severity(execution_time, baseline)] >>
                ELSE <<>>]
    ELSE [timings |-> timings, issues |-> <<>>]

detect_performance_issues(timings, event) ==
    IF event.event_type = "tool_use" /\ HasMetrics(event)
    THEN LET execution_time == Get(event.metrics, "execution_time", 0)
             tool_name == Get(event.data, "tool_name", "unknown")
             recorded == RecordTiming(timings, tool_name, execution_time)
             recent_timings == LastN(recorded[tool_name], TimingWindow)
             baseline == Median(recent_timings)
         IN [timings |-> recorded,
             issues |->
                IF EnoughTimings(recent_timings) /\ IsSlow(execution_time, baseline)
                THEN << [type |-> "slow_tool_execution",
                         tool_name |-> tool_name,
                         execution_time |-> execution_time,
                         baseline |-> baseline,
                         severity |-> Severity(execution_time, baseline)] >>
                ELSE <<>>]
    ELSE [timings |-> timings, issues |-> <<>>]

----------------------------------------------------------------------------
(* PatternDetector._detect_error_patterns                                  *)

\* bool(event.data.get('error')): a missing key and an empty string are falsy
HasError(event) == Get(event.data, "error", <<>>) # <<>>

\* a JSON number found where a text is expected, held as a one-element
\* sequence whose element is no character: str methods do not exist on it
NumberValue == <<"404">>

\* isinstance(x, str)
IsStr(x) == x # NumberValue

\* _similarity_score(e.data['error'], error_msg) raises AttributeError at
\* text1.lower() or text2.lower() when one of the two is not a str
error_patterns_raises(window, event) ==
    /\ event.event_type = "tool_use"
    /\ HasError(event)
    /\ \E i \in DOMAIN window :
          /\ window[i].event_type = "tool_use"
          /\ HasError(window[i])
          /\ (~IsStr(window[i].data.error) \/ ~IsStr(event.data.error))

\* len(similar_errors) > 3
IsRecurringLate(similar_errors) == Len(similar_errors) > RecurringMin + 1

IsRecurring(similar_errors) == Len(similar_errors) > RecurringMin

detect_error_patterns(window, event) ==
    IF event.event_type = "tool_use" /\ HasError(event)
    THEN LET error_msg == event.data.error
             tool_name == Get(event.data, "tool_name", "unknown")
             Similar(e) == /\ e.event_type = "tool_use"
                           /\ HasError(e)
                           /\ Above08(similarity_score(e.data.error, error_msg))
             similar_errors == SelectSeq(window, Similar)
         IN IF IsRecurring(similar_errors)
            THEN << [type |-> "recurring_error",
                     tool_name |-> tool_name,
                     error_message |-> error_msg,
                     occurrence_count |-> Len(similar_errors),
                     severity |-> "high"] >>
            ELSE <<>>
    ELSE <<>>

----------------------------------------------------------------------------
(* PatternDetector._detect_success_indicators                              *)

\* self.agent_success_rates[agent_name].append(success)
RecordSuccess(rates, agent_name, success) ==
    Put(rates, agent_name, Append(ListOf(rates, agent_name), success))

\* len(recent_successes) >= 5
EnoughSuccessesEarly(recent_successes) == Len(recent_successes) >= MinSuccessSamples - 1

EnoughSuccesses(recent_successes) == Len(recent_successes) >= MinSuccessSamples

\* sum(recent_successes) / len(recent_successes)
SuccessRate(recent_successes) ==
    [num |-> Cardinality({i \in DOMAIN recent_successes : recent_successes[i]}),
     den |-> Len(recent_successes)]

detect_success_indicators(rates, event) ==
    IF event.event_type = "agent_complete"
    THEN LET agent_name == Get(event.data, "agent_name", "unknown")
             success == Get(event.data, "success", FALSE)
             recorded == RecordSuccess(rates, agent_name, success)
             recent_successes == LastN(recorded[agent_name], SuccessWindow)
             success_rate == SuccessRate(recent_successes)
         IN [rates |-> recorded,
             successes |->
                IF EnoughSuccesses(recent_successes) /\ Above08(success_rate)
                THEN << [type |-> "high_success_agent",
                         agent_name |-> agent_name,
                         success_rate |-> success_rate,
                         sample_size |-> Len(recent_successes)] >>
                ELSE <<>>]
    ELSE [rates |-> rates, successes |-> <<>>]

----------------------------------------------------------------------------
(* PatternDetector._detect_anomalies.  The isolation forest's prediction   *)
(* is an input of the model: either verdict is possible.                   *)

DurationSamples(window) ==
    LET Counts(e) == e.event_type = "session_end" /\ HasMetrics(e)
        ends == SelectSeq(window, Counts)
    IN [i \in DOMAIN ends |-> Get(ends[i].metrics, "session_duration", 0)]

\* len(recent_durations) > 10
EnoughDurations(recent_durations) == Len(recent_durations) > MinDurations

\* the values iso_forest.predict(...)[0] == -1 can take for this call
Verdicts(window, event) ==
    IF event.event_type = "session_end" /\ EnoughDurations(DurationSamples(window))
    THEN BOOLEAN ELSE {FALSE}

detect_anomalies(window, event, is_anomaly) ==
    IF event.event_type = "session_end"
    THEN LET session_duration == Get(event.metrics, "session_duration", 0)
             recent_durations == DurationSamples(window)
         IN IF EnoughDurations(recent_durations) /\ is_anomaly
            THEN << [type |-> "unusual_session_duration",
                     session_duration |-> session_duration,
                     baseline_median |-> Median(recent_durations),
                     severity |-> "medium"] >>
            ELSE <<>>
    ELSE <<>>

----------------------------------------------------------------------------
(* PatternDetector.analyze_event                                           *)

\* deque(maxlen=1000).append(event)
DequeAppendGrow(window, event) == Append(window, event)

DequeAppend(window, event) ==
    IF Len(window) >= RecentMaxLen
    THEN Append(Tail(window), event)
    ELSE Append(window, event)

NoAnalysis ==
    [performance_issues |-> <<>>, error_patterns |-> <<>>,
     success_indicators |-> <<>>, anomalies |-> <<>>]

analyze_event_result(window, perf, errs, succ, anom) ==
    [performance_issues |-> perf.issues,
     error_patterns |-> errs,
     success_indicators |-> succ.successes,
     anomalies |-> anom]

----------------------------------------------------------------------------
(* Event streams.  A stream is up to feed.head freely chosen events, then  *)
(* feed.run repetitions of feed.filler, then up to feed.tail freely chosen *)
(* events; free events are drawn from feed.alphabet.                       *)

TextAB == <<"a", " ", "b">>         \* "a b"
TextBlank == <<" ">>                \* " "

PerfAlphabet ==
    {ToolUse("Read", 1), ToolUse("Read", 3), ToolUse("Read", 10), ToolUse("Bash", 10)}

SparseAlphabet ==
    {ToolUse("Read", 1), ToolUse("Read", 10),
     [event_type |-> "tool_use", data |-> [tool_name |-> "Read"], metrics |-> NoDict],
     [event_type |-> "tool_use", data |-> [tool_name |-> "Read"], metrics |-> [tokens |-> 7]],
     [event_type |-> "tool_use", data |-> NoDict, metrics |-> [execution_time |-> 10]]}

AgentAlphabet ==
    {AgentComplete("planner", TRUE), AgentComplete("planner", FALSE),
     AgentComplete("coder", TRUE),
     [event_type |-> "agent_complete", data |-> [agent_name |-> "planner"], metrics |-> NoDict]}

WindowAlphabet ==
    {ToolError("Read", TextAB), ToolError("Read", TextBlank), PromptSubmit}

\* error texts of 6, 5 and 4 words: 5 of 6 words shared is a score above 0.8,
\* 4 of 5 words shared is a score of exactly 0.8
TextSix == <<"a", " ", "b", " ", "c", " ", "d", " ", "e", " ", "f">>

NearAlphabet ==
    {ToolError("Read", TextSix), ToolError("Bash", SubSeq(TextSix, 1, 9)),
     ToolError("Read", SubSeq(TextSix, 1, 7))}

\* an event of a type no detector handles, carrying every field a detector reads
Notification ==
    [event_type |-> "notification",
     data |-> [tool_name |-> "Read", error |-> TextAB, agent_name |-> "planner", success |-> TRUE],
     metrics |-> [execution_time |-> 10, session_duration |-> 5]]

\* the event made of a log entry that has no event_type
UnknownEvent == [event_type |-> "unknown", data |-> NoDict, metrics |-> NoDict]

OtherAlphabet ==
    {ToolUse("Read", 1), AgentComplete("planner", TRUE), Notification, UnknownEvent}

\* a slow and failing tool use
SlowError(time) ==
    [event_type |-> "tool_use", data |-> [tool_name |-> "Read", error |-> TextAB],
     metrics |-> [execution_time |-> time]]

FileAlphabet ==
    {ToolUse("Read", 1), ToolUse("Read", 10), SlowError(3), ToolError("Read", NumberValue)}

OutcomeAlphabet ==
    {AgentComplete("planner", TRUE), SessionEnd(5), SessionEnd(500)}

DurationAlphabet ==
    {SessionEnd(5), SessionEnd(500),
     [event_type |-> "session_end", data |-> NoDict, metrics |-> [tokens |-> 7]],
     [event_type |-> "session_end", data |-> NoDict, metrics |-> NoDict]}

Shapes ==
    PerfAlphabet \cup SparseAlphabet \cup AgentAlphabet \cup WindowAlphabet \cup OtherAlphabet
    \cup DurationAlphabet \cup FileAlphabet \cup OutcomeAlphabet \cup NearAlphabet

Stream(alphabet, filler, head, run, tail) ==
    [alphabet |-> alphabet, filler |-> filler, head |-> head, run |-> run, tail |-> tail]

\* short streams, and streams that fill a rolling history up to its bound
ShortFeeds ==
    {Stream(PerfAlphabet, ToolUse("Read", 1), 0, r, MaxTail) :
        r \in {0, TimingWindow + 1 - MaxTail}}
    \cup {Stream(SparseAlphabet, ToolUse("Read", 1), 0, 0, MaxTail)}
    \cup {Stream(AgentAlphabet, AgentComplete("planner", TRUE), 0, r, MaxTail) :
        r \in {0, SuccessWindow + 1 - MaxTail}}
    \cup {Stream(OtherAlphabet, ToolUse("Read", 1), 0, 0, MaxTail)}
    \cup {Stream(DurationAlphabet, SessionEnd(5), 0, MinDurations + 2 - MaxTail, MaxTail)}

\* streams that fill the Recent-Event Window up to its bound
WindowFeeds ==
    {Stream(WindowAlphabet, PromptSubmit, MaxHead, RecentMaxLen - 1 - MaxHead, WindowTail),
     Stream(NearAlphabet, PromptSubmit, MaxHead, RecentMaxLen - 1 - MaxHead, WindowTail)}

\* the log files handed to analyze_log_file
FileFeeds ==
    {Stream(FileAlphabet, ToolUse("Read", 1), 0, MinTimingSamples, MaxTail),
     Stream(OutcomeAlphabet, SessionEnd(5), 0, MinDurations, MaxTail)}

\* the events handed to analyze_event before the log file being analysed
FileStart ==
    IF earlier_files = <<>> THEN 0 ELSE earlier_files[Len(earlier_files)].end

\* the events the stream can deliver next
Offered(shape) ==
    LET n == Len(arrived) - FileStart IN
    IF n >= feed.head /\ n < feed.head + feed.run
    THEN shape = feed.filler
    ELSE shape \in feed.alphabet /\ n < feed.head + feed.run + feed.tail

----------------------------------------------------------------------------
(* hooks/session_improvement.py.  A JSON value v of a log entry is held as *)
(* <<v>> and null as <<>>, so that dict.get(key) is None == <<>> for a     *)
(* missing key as well.                                                    *)

None == <<>>

Some(v) == <<v>>

WorkflowLength == 5     \* len(current_sequence) >= 5
OverlapLength == 2      \* current_sequence[-2:]
MinOccurrences == 2     \* count >= 2, error_data["occurrences"] >= 2
KeyChars == 50          \* log.get('error', 'unknown')[:50]
MessageChars == 100     \* error_data['error'][:100]
PendingLimit == 100     \* existing_improvements[-100:]

UnknownText == <<"u", "n", "k", "n", "o", "w", "n">>     \* 'unknown'

UnknownErrorText ==                                      \* 'Unknown error'
    <<"U", "n", "k", "n", "o", "w", "n", " ", "e", "r", "r", "o", "r">>

\* s[:n]
Prefix(s, n) == SubSeq(s, 1, IF Len(s) < n THEN Len(s) ELSE n)

\* [i for i in range(len(xs))]
Indices(xs) == [i \in 1..Len(xs) |-> i]

\* bool(log.get('tool_name'))
HasTool(log) ==
    LET t == Get(log, "tool_name", None) IN t # None /\ t[1] # ""

\* str.lower() of a tool name
LowerName(t) ==
    CASE t = "Read" -> "read"
      [] t = "Edit" -> "edit"
      [] OTHER -> t

\* list.sort(key=lambda x: x.get('timestamp', '')): stable insertion by timestamp
RECURSIVE SortByTimestamp(_)
SortByTimestamp(logs) ==
    IF logs = <<>> THEN <<>>
    ELSE LET rest == SortByTimestamp(SubSeq(logs, 1, Len(logs) - 1))
             x == logs[Len(logs)]
             Key(e) == Get(e, "timestamp", Some(0))[1]
             before == SelectSeq(rest, LAMBDA e : Key(e) <= Key(x))
             after == SelectSeq(rest, LAMBDA e : Key(e) > Key(x))
         IN before \o <<x>> \o after

LogFileNames ==
    <<"session_start", "pre_tool_use", "post_tool_use",
      "user_prompt_submit", "notifications", "stop">>

PendingFile == "pending_improvements"

\* the entries of one log file that belong to the session, tagged with log_type
SessionEntries(disk, name, session_id) ==
    IF name \in DOMAIN disk
    THEN LET mine == SelectSeq(disk[name],
                        LAMBDA log : Get(log, "session_id", None) = Some(session_id))
         IN [i \in DOMAIN mine |-> Put(mine[i], "log_type", Some(name))]
    ELSE <<>>

load_session_logs(disk, session_id) ==
    SortByTimestamp(
        SessionEntries(disk, LogFileNames[1], session_id)
        \o SessionEntries(disk, LogFileNames[2], session_id)
        \o SessionEntries(disk, LogFileNames[3], session_id)
        \o SessionEntries(disk, LogFileNames[4], session_id)
        \o SessionEntries(disk, LogFileNames[5], session_id)
        \o SessionEntries(disk, LogFileNames[6], session_id))

(* detect_patterns *)

\* the (tool, tool, tool) windows of three adjacent tool-bearing entries, in order
ToolTriples(logs) ==
    LET starts == SelectSeq(Indices(logs),
                    LAMBDA i : /\ i + 2 <= Len(logs)
                               /\ HasTool(logs[i])
                               /\ HasTool(logs[i + 1])
                               /\ HasTool(logs[i + 2]))
    IN [k \in DOMAIN starts |->
          <<logs[starts[k]].tool_name[1],
            logs[starts[k] + 1].tool_name[1],
            logs[starts[k] + 2].tool_name[1]>>]

\* Counter(xs)[x]
CountOf(xs, x) == Cardinality({i \in DOMAIN xs : xs[i] = x})

\* the keys of Counter(xs), in insertion order
CounterKeys(xs) ==
    LET firsts == SelectSeq(Indices(xs), LAMBDA i : \A j \in 1..(i - 1) : xs[j] # xs[i])
    IN [k \in DOMAIN firsts |-> xs[firsts[k]]]

\* count >= 2
IsRepeatedThrice(count) == count >= MinOccurrences + 1

IsRepeated(count) == count >= MinOccurrences

SequencePatterns(logs) ==
    LET tool_sequences == ToolTriples(logs)
        repeated == SelectSeq(CounterKeys(tool_sequences),
                        LAMBDA q : IsRepeated(CountOf(tool_sequences, q)))
    IN [k \in DOMAIN repeated |->
          [type |-> "tool_sequence",
           sequence |-> repeated[k],
           occurrences |-> CountOf(tool_sequences, repeated[k]),
           potential_command |-> TRUE,
           suggested_name |-> <<LowerName(repeated[k][1]), "_", LowerName(repeated[k][3]), "_flow">>]]

\* range(len(logs) - 2), as 1-based positions
RetryRange(logs) == SelectSeq(Indices(logs), LAMBDA i : i <= Len(logs) - 2)

RetryPatterns(logs) ==
    LET hits == SelectSeq(RetryRange(logs),
                    LAMBDA i : /\ Get(logs[i], "success", None) = Some(FALSE)
                               /\ i + 1 <= Len(logs)
                               /\ Get(logs[i + 1], "tool_name", None) = Get(logs[i], "tool_name", None))
    IN [k \in DOMAIN hits |->
          [type |-> "error_retry",
           tool |-> Get(logs[hits[k]], "tool_name", None),
           error |-> Get(logs[hits[k]], "error", Some(UnknownErrorText)),
           potential_hook |-> TRUE,
           suggested_improvement |-> "Add validation or error prevention"]]

detect_patterns(logs) == SequencePatterns(logs) \o RetryPatterns(logs)

(* find_tool_sequences *)

\* bool(t['success'])
IsSuccess(step) == step.success = Some(TRUE)

\* the record appended once the running sequence holds 5 tools
WorkflowRecord(current_sequence) ==
    [id |-> [md5 |-> [i \in DOMAIN current_sequence |-> current_sequence[i].tool]],
     length |-> Len(current_sequence),
     tools |-> [i \in DOMAIN current_sequence |-> current_sequence[i].tool],
     success_rate |->
        [num |-> Cardinality({i \in DOMAIN current_sequence : IsSuccess(current_sequence[i])}),
         den |-> Len(current_sequence)],
     potential_agent |-> TRUE]

\* current_sequence = current_sequence[-2:]
OverlapNone(current_sequence) == <<>>

Overlap(current_sequence) == LastN(current_sequence, OverlapLength)

RECURSIVE ToolSequencesFrom(_, _, _)
ToolSequencesFrom(logs, current_sequence, sequences) ==
    IF logs = <<>> THEN sequences
    ELSE LET log == Head(logs) IN
         IF HasTool(log)
         THEN LET grown == Append(current_sequence,
                              [tool |-> log.tool_name[1],
                               success |-> Get(log, "success", Some(TRUE)),
                               timestamp |-> Get(log, "timestamp", None)])
              IN IF Len(grown) >= WorkflowLength
                 THEN ToolSequencesFrom(Tail(logs), Overlap(grown),
                                        Append(sequences, WorkflowRecord(grown)))
                 ELSE ToolSequencesFrom(Tail(logs), grown, sequences)
         ELSE ToolSequencesFrom(Tail(logs), current_sequence, sequences)

find_tool_sequences(logs) == ToolSequencesFrom(logs, <<>>, <<>>)

(* find_error_patterns.  Slicing None raises TypeError: the result is     *)
(* [raised |-> TRUE] then.                                                 *)

\* not log.get('success', True)
IsFailure(log) == Get(log, "success", Some(TRUE)) \notin {Some(TRUE)}

\* the error_groups dict after the loop, as its items in insertion order
RECURSIVE ErrorGroupsFrom(_, _)
ErrorGroupsFrom(logs, error_groups) ==
    IF logs = <<>> THEN [raised |-> FALSE, groups |-> error_groups]
    ELSE LET log == Head(logs) IN
         IF IsFailure(log)
         THEN LET text == Get(log, "error", Some(UnknownText)) IN
              IF text = None
              THEN [raised |-> TRUE, groups |-> error_groups]
              ELSE LET error_key == <<Get(log, "tool_name", None), Prefix(text[1], KeyChars)>>
                       known == {i \in DOMAIN error_groups : error_groups[i].key = error_key}
                       opened == IF known = {}
                                 THEN Append(error_groups,
                                        [key |-> error_key,
                                         tool |-> Get(log, "tool_name", None),
                                         error |-> Get(log, "error", None),
                                         occurrences |-> 0,
                                         timestamps |-> <<>>])
                                 ELSE error_groups
                       at == CHOOSE i \in DOMAIN opened : opened[i].key = error_key
                       counted == [opened EXCEPT
                                     ![at].occurrences = @ + 1,
                                     ![at].timestamps = Append(@, Get(log, "timestamp", None))]
                   IN ErrorGroupsFrom(Tail(logs), counted)
         ELSE ErrorGroupsFrom(Tail(logs), error_groups)

find_error_patterns(logs) ==
    LET built == ErrorGroupsFrom(logs, <<>>)
        reported == SelectSeq(built.groups, LAMBDA g : IsRepeated(g.occurrences))
    IN IF built.raised \/ \E i \in DOMAIN reported : reported[i].error = None
       THEN [raised |-> TRUE, value |-> <<>>]
       ELSE [raised |-> FALSE,
             value |-> [i \in DOMAIN reported |->
                          [tool |-> reported[i].tool,
                           error |-> reported[i].error,
                           occurrences |-> reported[i].occurrences,
                           timestamps |-> reported[i].timestamps,
                           potential_hook |-> TRUE,
                           suggested_hook_type |-> "PreToolUse",
                           recommendation |-> Prefix(reported[i].error[1], MessageChars)]]]

(* calculate_session_metrics *)

\* log.get('execution_time', 0)
TimeOf(log) == Get(log, "execution_time", Some(0))[1]

RECURSIVE SumOf(_)
SumOf(xs) == IF xs = <<>> THEN 0 ELSE Head(xs) + SumOf(Tail(xs))

\* max(tool_logs, key=...): the first entry with the greatest key
FirstEntry(tool_logs) == tool_logs[1]

FirstMax(tool_logs) ==
    LET i == CHOOSE j \in DOMAIN tool_logs :
                /\ \A k \in DOMAIN tool_logs : TimeOf(tool_logs[k]) <= TimeOf(tool_logs[j])
                /\ \A k \in 1..(j - 1) : TimeOf(tool_logs[k]) < TimeOf(tool_logs[j])
    IN tool_logs[i]

calculate_session_metrics(logs) ==
    LET tool_logs == SelectSeq(logs, HasTool)
        error_count == Cardinality({i \in DOMAIN tool_logs : IsFailure(tool_logs[i])})
        timed == SelectSeq(tool_logs, LAMBDA log : TimeOf(log) # 0)
        execution_times == [i \in DOMAIN timed |-> TimeOf(timed[i])]
        max_time_log == FirstMax(tool_logs)
    IN [total_tools_used |-> Len(tool_logs),
        unique_tools |-> Cardinality({tool_logs[i].tool_name : i \in DOMAIN tool_logs}),
        error_rate |->
            IF tool_logs # <<>> THEN [num |-> error_count, den |-> Len(tool_logs)] ELSE Zero,
        total_execution_time |-> SumOf(execution_times),
        average_execution_time |->
            IF execution_times # <<>>
            THEN [num |-> SumOf(execution_times), den |-> Len(execution_times)]
            ELSE Zero,
        longest_operation |->
            IF execution_times # <<>>
            THEN Some([tool |-> Get(max_time_log, "tool_name", None),
                       time |-> TimeOf(max_time_log)])
            ELSE None]

(* save_for_batch_processing: the disk after the call *)

SaveIntoLog(disk, found) ==
    Put(disk, "stop", Append(ListOf(disk, "stop"), found))

SaveUntrimmed(disk, found) ==
    Put(disk, PendingFile, Append(ListOf(disk, PendingFile), found))

save_for_batch_processing(disk, found) ==
    Put(disk, PendingFile,
        LastN(Append(ListOf(disk, PendingFile), found), PendingLimit))

(* analyze_session: [raised, result, analysis, disk] of one call *)

AnalysisOf(session_id, clock, session_logs) ==
    [session_id |-> session_id,
     timestamp |-> Some(clock),
     total_events |-> Len(session_logs),
     patterns |-> detect_patterns(session_logs),
     tool_sequences |-> find_tool_sequences(session_logs),
     error_sequences |-> find_error_patterns(session_logs).value,
     metrics |-> calculate_session_metrics(session_logs)]

\* if analysis["patterns"] or analysis["error_sequences"]
IsMeaningful(found) == found.patterns # <<>> \/ found.error_sequences # <<>>

NoLogsResultFailed(session_id) ==
    [analyzed |-> FALSE, session_id |-> session_id, error |-> "No logs found for session"]

NoLogsResult(session_id) ==
    [analyzed |-> TRUE, session_id |-> session_id, patterns_found |-> 0,
     message |-> "No logs found for session"]

Outcome(raised, result, found, disk) ==
    [raised |-> raised, result |-> result, analysis |-> found, files |-> disk]

analyze_session_call(disk, event, clock) ==
    LET session_id == Get(event, "session_id", None) IN
    IF session_id = None \/ session_id = Some("")
    THEN Outcome(FALSE, [error |-> "No session_id provided", analyzed |-> FALSE], None, disk)
    ELSE LET session_logs == load_session_logs(disk, session_id[1]) IN
         IF session_logs = <<>>
         THEN Outcome(FALSE, NoLogsResult(session_id), None, disk)
         ELSE IF find_error_patterns(session_logs).raised
         THEN Outcome(TRUE, NoDict, None, disk)
         ELSE LET found == AnalysisOf(session_id, clock, session_logs) IN
              IF IsMeaningful(found)
              THEN Outcome(FALSE,
                      [analyzed |-> TRUE,
                       session_id |-> session_id,
                       patterns_found |-> Len(found.patterns),
                       tool_sequences_found |-> Len(found.tool_sequences),
                       errors_found |-> Len(found.error_sequences),
                       saved_for_improvement |-> TRUE],
                      Some(found), save_for_batch_processing(disk, found))
              ELSE Outcome(FALSE,
                      [analyzed |-> TRUE, session_id |-> session_id, patterns_found |-> 0,
                       message |-> "No significant patterns detected"],
                      Some(found), disk)

----------------------------------------------------------------------------
(* Inputs of the batch pass: the session's log file.                       *)

ToolLog(tool, ok) ==
    [session_id |-> Some("s1"), tool_name |-> Some(tool), success |-> Some(ok)]

TimedLog(tool, time) ==
    [session_id |-> Some("s1"), tool_name |-> Some(tool), success |-> Some(TRUE),
     execution_time |-> Some(time)]

FailedLog(tool, error) ==
    [session_id |-> Some("s1"), tool_name |-> Some(tool), success |-> Some(FALSE),
     error |-> error]

WorkflowShapes == {ToolLog("Read", TRUE), ToolLog("Edit", TRUE)}

MixedShapes ==
    {TimedLog("Read", 2), TimedLog("Edit", 5),
     FailedLog("Read", Some(<<"e">>)),
     FailedLog("Read", None),
     ToolLog("Read", FALSE),
     [session_id |-> Some("s1"), execution_time |-> Some(9)]}

\* tool uses interleaved with entries that carry no tool_name
BrokenShapes == {ToolLog("Read", TRUE), [session_id |-> Some("s1")]}

SeqsUpTo(S, n) == UNION {[1..k -> S] : k \in 0..n}

\* entries are written in time order: the i-th entry carries timestamp i
WithTimestamps(shapes) == [i \in DOMAIN shapes |-> Put(shapes[i], "timestamp", Some(i))]

SessionLogs ==
    {WithTimestamps(q) : q \in SeqsUpTo(WorkflowShapes, MaxRun)
                               \cup SeqsUpTo(MixedShapes, MaxMixed)
                               \cup SeqsUpTo(BrokenShapes, MaxBroken)}

StopEvents == {[session_id |-> Some("s1")], NoDict}

\* the texts handed to the scorer
Texts == SeqsUpTo({"a", "A", "b", " "}, MaxStrLen)

----------------------------------------------------------------------------
(* LogEvent: a raw log entry made into an event (analyze_log_file) and the *)
(* datetime property.  The JSON values of a raw entry are held as <<v>>,    *)
(* null as <<>>.  A timestamp text is a sequence of pieces: a date-time     *)
(* piece, optionally followed by a zone piece.                             *)

DateTimes == {"2025-01-01T00:00:00", "now+0", "now+1", "now+2"}

\* datetime.now() when the clock shows tick
DatetimeNow(tick) ==
    [date |-> <<"now+0", "now+1", "now+2">>[tick + 1], tzinfo |-> "naive"]

\* datetime.isoformat() of a naive datetime
IsoFormat(value) == <<value.date>>

\* str.replace('Z', '+00:00')
ReplaceZ(text) == [i \in DOMAIN text |-> IF text[i] = "Z" THEN "+00:00" ELSE text[i]]

\* datetime.fromisoformat(text): raises ValueError unless text is a date-time,
\* optionally followed by a UTC offset
fromisoformat(text) ==
    IF /\ Len(text) \in {1, 2}
       /\ text[1] \in DateTimes
       /\ Len(text) = 2 => text[2] = "+00:00"
    THEN [raised |-> FALSE,
          value |-> [date |-> text[1], tzinfo |-> IF Len(text) = 2 THEN "UTC" ELSE "naive"]]
    ELSE [raised |-> TRUE, value |-> None]

\* LogEvent.__post_init__: metrics None becomes {}
post_init(metrics) == IF metrics = None THEN Some(NoDict) ELSE metrics

\* event_type=entry.get('event_type', 'unknown')
EventTypeOrNone(entry) == Get(entry, "event_type", None)

EventTypeOf(entry) == Get(entry, "event_type", Some("unknown"))

\* LogEvent(event_type=..., session_id=..., timestamp=..., data=entry, metrics=...)
LogEventOf(entry, tick) ==
    [event_type |-> EventTypeOf(entry),
     session_id |-> Get(entry, "session_id", Some("unknown")),
     timestamp |-> Get(entry, "timestamp", Some(IsoFormat(DatetimeNow(tick)))),
     data |-> entry,
     metrics |-> post_init(Get(entry, "metrics", Some(NoDict)))]

\* the property without its except clause
datetime_strict(event, tick) ==
    IF event.timestamp = None
    THEN [raised |-> TRUE, value |-> None]
    ELSE fromisoformat(ReplaceZ(event.timestamp[1]))

\* LogEvent.datetime: None.replace raises AttributeError, fromisoformat raises
\* ValueError; the bare except returns datetime.now() for both
datetime_of(event, tick) ==
    IF event.timestamp = None
    THEN [raised |-> FALSE, value |-> DatetimeNow(tick)]
    ELSE LET parsed == fromisoformat(ReplaceZ(event.timestamp[1])) IN
         IF parsed.raised
         THEN [raised |-> FALSE, value |-> DatetimeNow(tick)]
         ELSE parsed

\* a field of a raw entry: absent, or present with a value
Absent == [present |-> FALSE, value |-> None]

Present(v) == [present |-> TRUE, value |-> v]

WithField(entry, key, choice) == IF choice.present THEN Put(entry, key, choice.value) ELSE entry

TimestampTexts ==
    {<<"2025-01-01T00:00:00">>, <<"2025-01-01T00:00:00", "Z">>,
     <<"2025-01-01T00:00:00", "+00:00">>, <<"yesterday">>, <<"Z">>, <<>>}

\* the raw entries of a log file
LogEntries ==
    {WithField(WithField(WithField(WithField(WithField(NoDict,
        "event_type", e), "session_id", i), "timestamp", t), "metrics", m), "tool_name", n) :
        e \in {Absent, Present(None), Present(Some("tool_use"))},
        i \in {Absent, Present(Some("s1"))},
        t \in {Absent, Present(None)} \cup {Present(Some(text)) : text \in TimestampTexts},
        m \in {Absent, Present(None), Present(Some(NoDict)),
                Present(Some([execution_time |-> 1]))},
        n \in {Absent, Present(Some("Read"))}}

----------------------------------------------------------------------------
(* LogAnalyzer: the results of analyze_log_file and the recommendations.   *)

ErrorPatternChars == 200    \* issue['error_message'][:200]

Categories == <<"performance_issues", "error_patterns", "success_indicators", "anomalies">>

\* any(event_analysis.values())
AnyFinding(event_analysis) ==
    \E k \in DOMAIN Categories : event_analysis[Categories[k]] # <<>>

\* analysis_results['patterns'].append({'event': ..., 'analysis': ...}) when
\* the event's analysis found something
CollectPattern(results, event, event_analysis) ==
    IF AnyFinding(event_analysis)
    THEN [results EXCEPT !.patterns = Append(@, [event |-> event, analysis |-> event_analysis])]
    ELSE results

\* the (category, issues) pairs in the order the grouping loop visits them
RECURSIVE GroupItems(_)
GroupItems(patterns) ==
    IF patterns = <<>> THEN <<>>
    ELSE LET found == Head(patterns).analysis
             items == [k \in DOMAIN Categories |->
                         [category |-> Categories[k], issues |-> found[Categories[k]]]]
         IN SelectSeq(items, LAMBDA it : it.issues # <<>>) \o GroupItems(Tail(patterns))

\* pattern_groups[category] after the grouping loop
RECURSIVE IssuesOf(_, _)
IssuesOf(items, category) ==
    IF items = <<>> THEN <<>>
    ELSE (IF Head(items).category = category THEN Head(items).issues ELSE <<>>)
            \o IssuesOf(Tail(items), category)

\* pattern_groups.items(), in insertion order
PatternGroups(patterns) ==
    LET items == GroupItems(patterns)
        keys == CounterKeys([i \in DOMAIN items |-> items[i].category])
    IN [k \in DOMAIN keys |-> [category |-> keys[k], issues |-> IssuesOf(items, keys[k])]]

\* 'priority': issue['severity']
PerformancePriorityFixed(issue) == "high"

PerformancePriority(issue) == issue.severity

recommend_performance_fixes(issues) ==
    LET slow == SelectSeq(issues, LAMBDA issue : issue.type = "slow_tool_execution")
    IN [k \in DOMAIN slow |->
          [type |-> "performance_optimization",
           priority |-> PerformancePriority(slow[k]),
           tool_name |-> slow[k].tool_name,
           recommendation |->
              [tool_name |-> slow[k].tool_name,
               execution_time |-> slow[k].execution_time,
               times_slower |-> [num |-> slow[k].execution_time * slow[k].baseline.den,
                                 den |-> slow[k].baseline.num]],
           action_items |-> <<slow[k].tool_name, "resources", "caching">>]]

\* msg[:200] + "..." if len(msg) > 200 else msg
ErrorPattern(error_message) ==
    IF Len(error_message) > ErrorPatternChars
    THEN Prefix(error_message, ErrorPatternChars) \o <<".", ".", ".">>
    ELSE error_message

recommend_error_fixes(issues) ==
    LET recurring == SelectSeq(issues, LAMBDA issue : issue.type = "recurring_error")
    IN [k \in DOMAIN recurring |->
          [type |-> "error_resolution",
           priority |-> "high",
           tool_name |-> recurring[k].tool_name,
           recommendation |->
              [tool_name |-> recurring[k].tool_name,
               occurrence_count |-> recurring[k].occurrence_count],
           error_pattern |-> ErrorPattern(recurring[k].error_message),
           action_items |-> <<"root cause", "configuration", "retry logic">>]]

recommend_success_amplification(successes) ==
    LET high == SelectSeq(successes, LAMBDA success : success.type = "high_success_agent")
    IN [k \in DOMAIN high |->
          [type |-> "success_amplification",
           priority |-> "medium",
           agent_name |-> high[k].agent_name,
           recommendation |->
              [agent_name |-> high[k].agent_name, success_rate |-> high[k].success_rate],
           action_items |-> <<high[k].agent_name, "transferable", "update">>]]

\* the recommendations one pattern group contributes
GroupRecommendations(group) ==
    CASE group.category = "performance_issues" -> recommend_performance_fixes(group.issues)
      [] group.category = "error_patterns" -> recommend_error_fixes(group.issues)
      [] group.category = "success_indicators" -> recommend_success_amplification(group.issues)
      [] OTHER -> <<>>

RECURSIVE RecommendationsFrom(_)
RecommendationsFrom(groups) ==
    IF groups = <<>> THEN <<>>
    ELSE GroupRecommendations(Head(groups)) \o RecommendationsFrom(Tail(groups))

generate_recommendations(patterns) == RecommendationsFrom(PatternGroups(patterns))

\* analysis_results as created before the event loop
NoResults == [patterns |-> <<>>, recommendations |-> <<>>]

\* return {'error': f'Failed to analyze log file: {str(e)}'}
FailedResults == [error |-> "Failed to analyze log file"]

----------------------------------------------------------------------------
(* dashboard backend (main.py).  Coroutines run on one event loop: a step  *)
(* of the model is the code between two awaits that can suspend.  The       *)
(* analytics computed from the log files are held as the time of the        *)
(* computation and the number of writes the files had seen.                 *)

Clients == {"w1", "w2"}

\* list.remove(x): the first occurrence is taken out
ListRemove(xs, x) ==
    LET at == CHOOSE i \in DOMAIN xs : xs[i] = x /\ \A j \in 1..(i - 1) : xs[j] # x
    IN [k \in 1..(Len(xs) - 1) |-> IF k < at THEN xs[k] ELSE xs[k + 1]]

\* get_analytics_data(): what it returns, the globals it leaves, and whether it
\* read the log files
get_analytics_data(cache, update, time, logs) ==
    IF update # None /\ time - update[1] < CacheSeconds /\ cache # NoDict
    THEN [result |-> cache, cache |-> cache, update |-> update, loaded |-> FALSE]
    ELSE IF ~logs.readable
         THEN [result |-> [error |-> "No log files found"],
               cache |-> cache, update |-> update, loaded |-> TRUE]
         ELSE LET analytics == [timestamp |-> time, writes |-> logs.writes]
              IN [result |-> analytics, cache |-> analytics, update |-> Some(time),
                  loaded |-> TRUE]

DashboardInit ==
    /\ websocket_connections = <<>>
    /\ cached_analytics = NoDict
    /\ last_update = None
    /\ wall_clock = 0
    /\ dashboard_logs = [writes |-> 0, readable |-> FALSE]
    /\ sockets = [ws \in Clients |-> [open |-> TRUE, pc |-> "none"]]
    /\ notify_tasks = <<>>
    /\ calls = <<>>
    /\ removals = {}

----------------------------------------------------------------------------
(* State machines.                                                         *)

DetectorInit ==
    /\ command_timings = <<>>
    /\ agent_success_rates = <<>>
    /\ recent_events = <<>>
    /\ analysis = NoAnalysis
    /\ arrived = <<>>
    /\ analysis_results = NoResults
    /\ returned = None
    /\ earlier_files = <<>>

NoFeed == Stream({}, PromptSubmit, 0, 0, 0)

NoCall == [event |-> NoDict, raised |-> FALSE, result |-> NoDict, analysis |-> None]

SessionInit ==
    /\ files = NoDict
    /\ session_call = NoCall
    /\ now = 0

ScorerInit ==
    /\ text_a = <<>>
    /\ text_b = <<>>
    /\ scores = <<>>

EventInit ==
    /\ log_entry = NoDict
    /\ log_event = None
    /\ event_datetime = None

\* PatternDetector.analyze_event(event), as called by the event loop of
\* analyze_log_file: the analysis is collected, and an exception raised by a
\* detector ends the loop in the handler of analyze_log_file.
analyze_event(shape) ==
    /\ returned = None
    /\ Offered(shape)
    /\ LET event == Stamp(shape, Len(arrived) + 1)
           window == DequeAppend(recent_events, event)
           perf == detect_performance_issues(command_timings, event)
       IN IF error_patterns_raises(window, event)
          THEN /\ recent_events' = window
               /\ command_timings' = perf.timings
               /\ arrived' = Append(arrived, event)
               /\ returned' = Some(FailedResults)
               /\ UNCHANGED <<agent_success_rates, analysis, analysis_results, earlier_files>>
          ELSE LET errs == detect_error_patterns(window, event)
                   succ == detect_success_indicators(agent_success_rates, event)
               IN \E is_anomaly \in Verdicts(window, event) :
                    LET event_analysis ==
                            analyze_event_result(window, perf, errs, succ,
                                detect_anomalies(window, event, is_anomaly))
                    IN /\ recent_events' = window
                       /\ command_timings' = perf.timings
                       /\ agent_success_rates' = succ.rates
                       /\ analysis' = event_analysis
                       /\ arrived' = Append(arrived, event)
                       /\ analysis_results' =
                            CollectPattern(analysis_results, event, event_analysis)
                       /\ UNCHANGED <<returned, earlier_files>>
    /\ UNCHANGED <<feed, session_vars, scorer_vars, event_vars, dashboard_vars>>

\* analyze_log_file after its event loop: the recommendations are generated and
\* the results returned
return_results ==
    /\ returned = None
    /\ LET results == [analysis_results EXCEPT
                          !.recommendations = generate_recommendations(analysis_results.patterns)]
       IN /\ analysis_results' = results
          /\ returned' = Some([event_count |-> Len(arrived) - FileStart,
                                patterns |-> results.patterns,
                                recommendations |-> results.recommendations])
    /\ UNCHANGED <<command_timings, agent_success_rates, recent_events, analysis, arrived, feed,
                   earlier_files>>
    /\ UNCHANGED <<session_vars, scorer_vars, event_vars, dashboard_vars>>

\* a later call of analyze_log_file on the same LogAnalyzer, as far as the event
\* loop, discarding the detector's state first
AnalyzeWithFreshDetector ==
    /\ returned # None
    /\ Len(earlier_files) + 1 < MaxFiles
    /\ earlier_files' = Append(earlier_files, [end |-> Len(arrived), returned |-> returned[1]])
    /\ analysis_results' = NoResults
    /\ returned' = None
    /\ command_timings' = <<>>
    /\ agent_success_rates' = <<>>
    /\ recent_events' = <<>>
    /\ UNCHANGED <<analysis, arrived, feed>>
    /\ UNCHANGED <<session_vars, scorer_vars, event_vars, dashboard_vars>>

\* a later call of analyze_log_file on the same LogAnalyzer, as far as the event
\* loop: the file exists, its entries are made into events, and analysis_results
\* is created
analyze_log_file ==
    /\ returned # None
    /\ Len(earlier_files) + 1 < MaxFiles
    /\ earlier_files' = Append(earlier_files, [end |-> Len(arrived), returned |-> returned[1]])
    /\ analysis_results' = NoResults
    /\ returned' = None
    /\ UNCHANGED <<command_timings, agent_success_rates, recent_events, analysis, arrived, feed>>
    /\ UNCHANGED <<session_vars, scorer_vars, event_vars, dashboard_vars>>

\* a later call of analyze_log_file with a path that does not exist
file_not_found ==
    /\ returned # None
    /\ Len(earlier_files) + 1 < MaxFiles
    /\ earlier_files' = Append(earlier_files, [end |-> Len(arrived), returned |-> returned[1]])
    /\ returned' = Some([error |-> "Log file not found"])
    /\ UNCHANGED <<command_timings, agent_success_rates, recent_events, analysis, arrived, feed,
                   analysis_results>>
    /\ UNCHANGED <<session_vars, scorer_vars, event_vars, dashboard_vars>>

\* analyze_session(event), called by main() of the Stop hook
analyze_session(event) ==
    /\ now < MaxCalls
    /\ LET out == analyze_session_call(files, event, now + 1) IN
        /\ files' = out.files
        /\ session_call' = [event |-> event, raised |-> out.raised,
                            result |-> out.result, analysis |-> out.analysis]
        /\ now' = now + 1
    /\ UNCHANGED <<detector_vars, scorer_vars, event_vars, dashboard_vars>>

\* _similarity_score(a, b) and _similarity_score(b, a)
score_texts ==
    /\ scores = <<>>
    /\ scores' = <<similarity_score(text_a, text_b), similarity_score(text_b, text_a)>>
    /\ UNCHANGED <<text_a, text_b, detector_vars, session_vars, event_vars, dashboard_vars>>

\* events.append(LogEvent(...)) for one entry of the file
make_event ==
    /\ log_event = None
    /\ log_event' = Some(LogEventOf(log_entry, now))
    /\ now' = now + 1
    /\ UNCHANGED <<log_entry, event_datetime, files, session_call, detector_vars, scorer_vars>>
    /\ UNCHANGED dashboard_vars

\* event.datetime
read_datetime ==
    /\ log_event # None
    /\ event_datetime = None
    /\ event_datetime' = Some(datetime_of(log_event[1], now))
    /\ now' = now + 1
    /\ UNCHANGED <<log_entry, log_event, files, session_call, detector_vars, scorer_vars>>
    /\ UNCHANGED dashboard_vars

Init ==
    /\ DetectorInit
    /\ feed \in ShortFeeds
    /\ SessionInit
    /\ ScorerInit
    /\ EventInit
    /\ DashboardInit

Next == \E shape \in Shapes : analyze_event(shape)

Spec == Init /\ [][Next]_vars

InitWindow ==
    /\ DetectorInit
    /\ feed \in WindowFeeds
    /\ SessionInit
    /\ ScorerInit
    /\ EventInit
    /\ DashboardInit

SpecWindow == InitWindow /\ [][Next]_vars

InitFile ==
    /\ DetectorInit
    /\ feed \in FileFeeds
    /\ SessionInit
    /\ ScorerInit
    /\ EventInit
    /\ DashboardInit

NextFile ==
    \/ \E shape \in Shapes : analyze_event(shape)
    \/ return_results

SpecFile == InitFile /\ [][NextFile]_vars

\* one LogAnalyzer analysing several short log files in turn
InitAnalyzer ==
    /\ DetectorInit
    /\ feed = Stream({ToolUse("Read", 1), SlowError(3), AgentComplete("planner", TRUE)},
                     PromptSubmit, 0, 0, MaxFileLen)
    /\ SessionInit
    /\ ScorerInit
    /\ EventInit
    /\ DashboardInit

NextAnalyzer ==
    \/ \E shape \in Shapes : analyze_event(shape)
    \/ return_results
    \/ analyze_log_file
    \/ file_not_found

SpecAnalyzer == InitAnalyzer /\ [][NextAnalyzer]_vars

InitSession ==
    /\ DetectorInit
    /\ feed = NoFeed
    /\ files \in {[post_tool_use |-> logs] : logs \in SessionLogs}
    /\ session_call = NoCall
    /\ now = 0
    /\ ScorerInit
    /\ EventInit
    /\ DashboardInit

NextSession == \E event \in StopEvents : analyze_session(event)

SpecSession == InitSession /\ [][NextSession]_vars

\* tool uses that succeed or fail without an error text, and a
\* pending_improvements.json that the calls of one run fill up, or find full
InitPending ==
    /\ DetectorInit
    /\ feed = NoFeed
    /\ \E q \in SeqsUpTo({ToolLog("Read", TRUE), ToolLog("Read", FALSE)}, MaxMixed),
          k \in (PendingLimit - MaxCalls)..PendingLimit :
          files = [post_tool_use |-> WithTimestamps(q),
                   pending_improvements |->
                       [i \in 1..k |-> [session_id |-> Some("s0"),
                                         timestamp |-> Some(i - k)]]]
    /\ session_call = NoCall
    /\ now = 0
    /\ ScorerInit
    /\ EventInit
    /\ DashboardInit

SpecPending == InitPending /\ [][NextSession]_vars

InitScorer ==
    /\ DetectorInit
    /\ feed = NoFeed
    /\ SessionInit
    /\ text_a \in Texts
    /\ text_b \in Texts
    /\ scores = <<>>
    /\ EventInit
    /\ DashboardInit

NextScorer == score_texts

SpecScorer == InitScorer /\ [][NextScorer]_vars

InitEvent ==
    /\ DetectorInit
    /\ feed = NoFeed
    /\ SessionInit
    /\ ScorerInit
    /\ log_entry \in LogEntries
    /\ log_event = None
    /\ event_datetime = None
    /\ DashboardInit

NextEvent == make_event \/ read_datetime

SpecEvent == InitEvent /\ [][NextEvent]_vars

\* the globals and the call history after one get_analytics_data call
Analytics(caller) ==
    LET got == get_analytics_data(cached_analytics, last_update, wall_clock, dashboard_logs)
    IN /\ Len(calls) < MaxRequests
       /\ cached_analytics' = got.cache
       /\ last_update' = got.update
       /\ calls' = Append(calls, [caller |-> caller, at |-> wall_clock,
                                  loaded |-> got.loaded, result |-> got.result])

\* GET /api/analytics and the other REST endpoints
get_analytics ==
    /\ Analytics("get_analytics")
    /\ UNCHANGED <<websocket_connections, wall_clock, dashboard_logs, sockets, notify_tasks, removals>>
    /\ UNCHANGED <<detector_vars, session_vars, scorer_vars, event_vars>>

\* time passes
time_passes ==
    /\ wall_clock + TickSeconds <= MaxTicks * TickSeconds
    /\ wall_clock' = wall_clock + TickSeconds
    /\ UNCHANGED <<websocket_connections, cached_analytics, last_update, dashboard_logs,
                   sockets, notify_tasks, calls, removals>>
    /\ UNCHANGED <<detector_vars, session_vars, scorer_vars, event_vars>>

\* a hook writes a log file and the watcher calls LogFileHandler.on_modified;
\* asyncio.create_task schedules notify_clients when an event loop runs in the
\* calling thread and raises RuntimeError when none does
on_modified ==
    /\ dashboard_logs.writes < MaxWrites
    /\ dashboard_logs' = [writes |-> dashboard_logs.writes + 1, readable |-> TRUE]
    /\ \E scheduled \in BOOLEAN :
          notify_tasks' =
             IF scheduled
             THEN Append(notify_tasks, [pc |-> "start", index |-> 0, pending |-> None,
                                        disconnected |-> <<>>])
             ELSE notify_tasks
    /\ UNCHANGED <<websocket_connections, cached_analytics, last_update, wall_clock, sockets,
                   calls, removals>>
    /\ UNCHANGED <<detector_vars, session_vars, scorer_vars, event_vars>>

\* the log files are deleted, or left unparseable by a writer
lose_logs ==
    /\ dashboard_logs.readable
    /\ dashboard_logs' = [dashboard_logs EXCEPT !.readable = FALSE]
    /\ UNCHANGED <<websocket_connections, cached_analytics, last_update, wall_clock, sockets,
                   notify_tasks, calls, removals>>
    /\ UNCHANGED <<detector_vars, session_vars, scorer_vars, event_vars>>

\* websocket_endpoint(ws) up to its first send: accept, append, get the
\* analytics, start sending the initial data
websocket_endpoint(ws) ==
    /\ sockets[ws].pc = "none"
    /\ websocket_connections' = Append(websocket_connections, ws)
    /\ Analytics("websocket_endpoint")
    /\ sockets' = [sockets EXCEPT ![ws].pc = "sending"]
    /\ UNCHANGED <<wall_clock, dashboard_logs, notify_tasks, removals>>
    /\ UNCHANGED <<detector_vars, session_vars, scorer_vars, event_vars>>

\* the client of ws goes away
client_disconnect(ws) ==
    /\ sockets[ws].pc # "none"
    /\ sockets[ws].open
    /\ sockets' = [sockets EXCEPT ![ws].open = FALSE]
    /\ UNCHANGED <<websocket_connections, cached_analytics, last_update, wall_clock,
                   dashboard_logs, notify_tasks, calls, removals>>
    /\ UNCHANGED <<detector_vars, session_vars, scorer_vars, event_vars>>

\* websocket_endpoint(ws) resumes: the initial send is over, or receive_text
\* raises WebSocketDisconnect.  A send to a client that went away raises
\* WebSocketDisconnect or another exception, which the endpoint does not catch.
\* The handler of WebSocketDisconnect calls websocket_connections.remove, which
\* raises ValueError when the connection is not in the list.
endpoint_resume(ws) ==
    LET present == \E i \in DOMAIN websocket_connections : websocket_connections[i] = ws IN
    /\ \/ /\ sockets[ws].pc = "sending"
          /\ sockets[ws].open
          /\ sockets' = [sockets EXCEPT ![ws].pc = "receiving"]
          /\ UNCHANGED <<websocket_connections, removals>>
       \/ /\ sockets[ws].pc \in {"sending", "receiving"}
          /\ ~sockets[ws].open
          /\ removals' = removals \cup {[by |-> "websocket_endpoint", ws |-> ws,
                                          present |-> present]}
          /\ websocket_connections' =
                IF present THEN ListRemove(websocket_connections, ws)
                ELSE websocket_connections
          /\ sockets' = [sockets EXCEPT ![ws].pc = IF present THEN "ended" ELSE "raised"]
       \/ /\ sockets[ws].pc = "sending"
          /\ ~sockets[ws].open
          /\ sockets' = [sockets EXCEPT ![ws].pc = "raised"]
          /\ UNCHANGED <<websocket_connections, removals>>
    /\ UNCHANGED <<cached_analytics, last_update, wall_clock, dashboard_logs, notify_tasks, calls>>
    /\ UNCHANGED <<detector_vars, session_vars, scorer_vars, event_vars>>

\* for ws in disconnected: websocket_connections.remove(ws), up to the first
\* remove that raises: the list, the removals made and whether one raised
RECURSIVE RemoveAll(_, _, _)
RemoveAll(connections, disconnected, done) ==
    IF disconnected = <<>>
    THEN [connections |-> connections, removals |-> done, raised |-> FALSE]
    ELSE LET ws == Head(disconnected)
             present == \E i \in DOMAIN connections : connections[i] = ws
             tried == done \cup {[by |-> "notify_clients", ws |-> ws, present |-> present]}
         IN IF present
            THEN RemoveAll(ListRemove(connections, ws), Tail(disconnected), tried)
            ELSE [connections |-> connections, removals |-> tried, raised |-> TRUE]

\* one step of the k-th notify_clients task: from its start to the first send,
\* or from the end of one send to the next send or to the end of the task
notify_clients(k) ==
    LET task == notify_tasks[k] IN
    /\ \/ /\ task.pc = "start"
          /\ websocket_connections = <<>>
          /\ notify_tasks' = [notify_tasks EXCEPT ![k].pc = "done"]
          /\ UNCHANGED <<websocket_connections, cached_analytics, last_update, calls, removals>>
       \/ /\ task.pc = "start"
          /\ websocket_connections # <<>>
          /\ Analytics("notify_clients")
          /\ notify_tasks' = [notify_tasks EXCEPT
                                ![k].pc = "sending",
                                ![k].index = 1,
                                ![k].pending = Some(websocket_connections[1])]
          /\ UNCHANGED <<websocket_connections, removals>>
       \/ /\ task.pc = "sending"
          /\ LET failed == ~sockets[task.pending[1]].open
                 disconnected == IF failed THEN Append(task.disconnected, task.pending[1])
                                 ELSE task.disconnected
             IN IF task.index < Len(websocket_connections)
                THEN /\ notify_tasks' = [notify_tasks EXCEPT
                                           ![k].index = task.index + 1,
                                           ![k].pending =
                                               Some(websocket_connections[task.index + 1]),
                                           ![k].disconnected = disconnected]
                     /\ UNCHANGED <<websocket_connections, removals>>
                ELSE LET out == RemoveAll(websocket_connections, disconnected, removals)
                     IN /\ websocket_connections' = out.connections
                        /\ removals' = out.removals
                        /\ notify_tasks' = [notify_tasks EXCEPT
                                              ![k].pc = IF out.raised THEN "raised" ELSE "done",
                                              ![k].pending = None,
                                              ![k].disconnected = disconnected]
          /\ UNCHANGED <<cached_analytics, last_update, calls>>
    /\ UNCHANGED <<wall_clock, dashboard_logs, sockets>>
    /\ UNCHANGED <<detector_vars, session_vars, scorer_vars, event_vars>>

InitDashboard ==
    /\ DetectorInit
    /\ feed = NoFeed
    /\ SessionInit
    /\ ScorerInit
    /\ EventInit
    /\ DashboardInit

NextDashboard ==
    \/ get_analytics
    \/ time_passes
    \/ on_modified
    \/ lose_logs
    \/ \E ws \in Clients : websocket_endpoint(ws)
    \/ \E ws \in Clients : client_disconnect(ws)
    \/ \E ws \in Clients : endpoint_resume(ws)
    \/ \E k \in DOMAIN notify_tasks : notify_clients(k)

SpecDashboard == InitDashboard /\ [][NextDashboard]_vars

----------------------------------------------------------------------------
(* Properties.                                                             *)

Called == arrived # <<>>

LastEvent == arrived[Len(arrived)]

LastTool == Get(LastEvent.data, "tool_name", "unknown")

LastAgent == Get(LastEvent.data, "agent_name", "unknown")

\* sorted(xs), by repeatedly taking the least element
RECURSIVE SortedList(_)
SortedList(xs) ==
    IF xs = <<>> THEN <<>>
    ELSE LET i == CHOOSE j \in DOMAIN xs : \A k \in DOMAIN xs : xs[j] <= xs[k]
         IN <<xs[i]>> \o SortedList([k \in 1..(Len(xs) - 1) |-> IF k < i THEN xs[k] ELSE xs[k + 1]])

\* two times the median of a non-empty list
TwiceMedian(xs) ==
    LET s == SortedList(xs)
        n == Len(xs)
    IN IF n % 2 = 1 THEN 2 * s[(n + 1) \div 2] ELSE s[n \div 2] + s[n \div 2 + 1]

Ones(n) == [i \in 1..n |-> 1]

\* C1: every stored timing history has at most 20 samples and every stored
\* success history at most 10 flags, after any sequence of analyze_event calls.
C1_HistoriesBounded ==
    /\ \A t \in DOMAIN command_timings : Len(command_timings[t]) <= 20
    /\ \A a \in DOMAIN agent_success_rates : Len(agent_success_rates[a]) <= 10

\* C2: the Recent-Event Window holds at most 1000 events, and they are exactly the
\* most recent min(n, 1000) of the n processed events, in arrival order.
C2_WindowIsMostRecent ==
    /\ Len(recent_events) <= 1000
    /\ Len(recent_events) = (IF Len(arrived) < 1000 THEN Len(arrived) ELSE 1000)
    /\ \A i \in DOMAIN recent_events :
          recent_events[i] = arrived[Len(arrived) - Len(recent_events) + i]

C2_Witness ==
    /\ Len(arrived) > 1000
    /\ Len(recent_events) = 1000
    /\ recent_events[1] = arrived[Len(arrived) - 999]
    /\ Shape(arrived[1]) # Shape(recent_events[1])

\* C3: a slow-execution finding is emitted for a tool only when at least 6 timing
\* samples, the current one included, have been recorded for that tool.
C3_NoSlowBelowSixSamples ==
    \A i \in DOMAIN analysis.performance_issues :
        LET f == analysis.performance_issues[i] IN
        f.type = "slow_tool_execution" =>
            /\ f.tool_name \in DOMAIN command_timings
            /\ Len(command_timings[f.tool_name]) >= 6

C3_Witness ==
    /\ Called
    /\ Shape(LastEvent) = ToolUse("Read", 10)
    /\ command_timings["Read"] = Ones(4) \o <<10>>
    /\ analysis.performance_issues = <<>>

\* C4: for a tool_use event of a tool with at least 6 recorded samples, a
\* slow-execution finding is emitted iff execution_time > 2 x the median of the
\* tool's most recent 20 samples; its severity is high iff execution_time > 3 x
\* that median, medium otherwise.  19 executions of time 1 followed by one of
\* time 10 give a finding of severity high on the 20th event.
C4_SlowIffAboveTwiceMedian ==
    (Called /\ LastEvent.event_type = "tool_use" /\ HasMetrics(LastEvent)) =>
        LET time == Get(LastEvent.metrics, "execution_time", 0)
            samples == command_timings[LastTool]
            m2 == TwiceMedian(LastN(samples, 20))
            issues == analysis.performance_issues
        IN /\ Len(samples) >= 6 =>
                /\ (time > m2) <=> (issues # <<>>)
                /\ issues # <<>> =>
                    /\ Len(issues) = 1
                    /\ issues[1].type = "slow_tool_execution"
                    /\ issues[1].tool_name = LastTool
                    /\ issues[1].severity = (IF 2 * time > 3 * m2 THEN "high" ELSE "medium")
           /\ samples = Ones(19) \o <<10>> =>
                /\ issues # <<>>
                /\ issues[1].severity = "high"

C4_Witness ==
    /\ Called
    /\ command_timings = [Read |-> Ones(19) \o <<10>>]
    /\ Len(analysis.performance_issues) = 1
    /\ analysis.performance_issues[1].severity = "high"

\* the tool_use events of the window that carry exactly the error text x
SameErrors(x) ==
    {i \in DOMAIN recent_events :
        /\ recent_events[i].event_type = "tool_use"
        /\ "error" \in DOMAIN recent_events[i].data
        /\ recent_events[i].data.error = x}

RecurringFound ==
    \E i \in DOMAIN analysis.error_patterns :
        /\ analysis.error_patterns[i].type = "recurring_error"
        /\ analysis.error_patterns[i].occurrence_count >= 4

\* C5 as claimed: when the event just processed is a tool_use event with a
\* non-empty error text that at least 4 tool_use events of the window carry,
\* a recurring_error finding with occurrence_count >= 4 is emitted.
C5_SameErrorRecurs ==
    (Called /\ LastEvent.event_type = "tool_use" /\ "error" \in DOMAIN LastEvent.data) =>
        LET x == LastEvent.data.error IN
        (x # <<>> /\ Cardinality(SameErrors(x)) >= 4) => RecurringFound

\* C5 as amended: the same, for an error text that holds at least one
\* non-whitespace character.
C5_SameWordedErrorRecurs ==
    (Called /\ LastEvent.event_type = "tool_use" /\ "error" \in DOMAIN LastEvent.data) =>
        LET x == LastEvent.data.error IN
        ((\E k \in DOMAIN x : x[k] # " ") /\ Cardinality(SameErrors(x)) >= 4) => RecurringFound

C5_Witness ==
    /\ Called
    /\ Len(arrived) > 1000
    /\ Shape(LastEvent) = ToolError("Read", TextAB)
    /\ Cardinality(SameErrors(TextAB)) = 4
    /\ RecurringFound

\* C6: an agent whose 5 recorded results are all true gets a high-success finding
\* with rate 1.0 and sample size 5 on the 5th event; no finding is emitted for an
\* agent with fewer than 5 recorded results.
C6_SuccessStreak ==
    /\ (Called /\ LastEvent.event_type = "agent_complete"
            /\ agent_success_rates[LastAgent] = <<TRUE, TRUE, TRUE, TRUE, TRUE>>) =>
          /\ Len(analysis.success_indicators) = 1
          /\ LET f == analysis.success_indicators[1] IN
                /\ f.type = "high_success_agent"
                /\ f.agent_name = LastAgent
                /\ f.success_rate.num = f.success_rate.den
                /\ f.sample_size = 5
    /\ \A i \in DOMAIN analysis.success_indicators :
          LET f == analysis.success_indicators[i] IN
          /\ f.agent_name \in DOMAIN agent_success_rates
          /\ Len(agent_success_rates[f.agent_name]) >= 5

C6_Witness ==
    /\ Called
    /\ agent_success_rates = [planner |-> <<TRUE, TRUE, TRUE, TRUE, TRUE>>]
    /\ Len(analysis.success_indicators) = 1

\* the event list the last analyze_session call worked on
LoadedLogs == load_session_logs(files, Get(session_call.event, "session_id", Some(""))[1])

Analyzed == session_call.analysis # None

Report == session_call.analysis[1]

\* C7: over n tool-bearing events, long-workflow extraction emits no record when
\* n < 5 and 1 + floor((n - 5) / 3) records when n >= 5; every record has length 5
\* and each record after the first starts with the last 2 tools of the one before.
C7_WorkflowRecords ==
    (Analyzed /\ \A i \in DOMAIN LoadedLogs : HasTool(LoadedLogs[i])) =>
        LET n == Len(LoadedLogs)
            records == Report.tool_sequences
        IN /\ Len(records) = (IF n < 5 THEN 0 ELSE 1 + ((n - 5) \div 3))
           /\ \A k \in DOMAIN records :
                /\ records[k].length = 5
                /\ Len(records[k].tools) = 5
           /\ \A k \in DOMAIN records :
                k > 1 => SubSeq(records[k].tools, 1, 2) = SubSeq(records[k - 1].tools, 4, 5)

C7_Witness ==
    /\ Analyzed
    /\ Len(LoadedLogs) = 8
    /\ \A i \in DOMAIN LoadedLogs : HasTool(LoadedLogs[i])
    /\ Len(Report.tool_sequences) = 2
    /\ Report.tool_sequences[1].tools = <<"Read", "Read", "Read", "Edit", "Read">>
    /\ Report.tool_sequences[2].tools = <<"Edit", "Read", "Edit", "Edit", "Edit">>

ZeroMetrics(metrics) ==
    /\ metrics.total_tools_used = 0
    /\ metrics.unique_tools = 0
    /\ metrics.error_rate.num = 0
    /\ metrics.total_execution_time = 0
    /\ metrics.average_execution_time.num = 0
    /\ metrics.longest_operation = None

\* the last call was made for a session that has no log entries
CalledOnNoEvents ==
    /\ now > 0
    /\ Get(session_call.event, "session_id", None) \notin {None, Some("")}
    /\ LoadedLogs = <<>>

LogFilesOf(disk) == [name \in (DOMAIN disk) \ {PendingFile} |-> disk[name]]

SameContent(c1, c2) ==
    /\ c1.raised = c2.raised
    /\ (c1.analysis = None) = (c2.analysis = None)
    /\ (c1.analysis # None /\ c2.analysis # None) =>
          /\ c1.analysis[1].patterns = c2.analysis[1].patterns
          /\ c1.analysis[1].tool_sequences = c2.analysis[1].tool_sequences
          /\ c1.analysis[1].error_sequences = c2.analysis[1].error_sequences
          /\ c1.analysis[1].metrics = c2.analysis[1].metrics

\* C9: a second analyze_session call for the same session yields the same report
\* content (patterns, tool sequences, error clusters, metrics) as the first, and a
\* call leaves the session's event list unchanged.
C9_SameReportTwice ==
    [][now' = now + 1 =>
        /\ LogFilesOf(files') = LogFilesOf(files)
        /\ (now > 0 /\ session_call'.event = session_call.event) =>
              SameContent(session_call, session_call')]_vars

C9_Witness ==
    /\ now = 2
    /\ Analyzed
    /\ Report.patterns # <<>>
    /\ Report.tool_sequences # <<>>
    /\ PendingFile \in DOMAIN files
    /\ Len(files[PendingFile]) = 2
    /\ files[PendingFile][1].patterns = files[PendingFile][2].patterns
    /\ files[PendingFile][1].timestamp # files[PendingFile][2].timestamp

Scored == scores # <<>>

\* a text without any token: empty, or whitespace only
NoWords(text) == \A i \in DOMAIN text : text[i] = " "

\* C10: similarity(a, b) equals similarity(b, a), and the score is 0 whenever one
\* of the texts has an empty token set.
C10_SymmetricAndZero ==
    Scored =>
        /\ scores[1].num * scores[2].den = scores[2].num * scores[1].den
        /\ (NoWords(text_a) \/ NoWords(text_b)) => (scores[1].num = 0 /\ scores[2].num = 0)

C10_Witness ==
    /\ Scored
    /\ text_a = <<"A">>
    /\ text_b = <<"a", " ", "b">>
    /\ scores[1].num = 1
    /\ scores[1].den = 2

\* C11 as claimed: for every non-empty text a, similarity(a, a) = 1, and every
\* score lies in [0, 1].
C11_ReflexiveNonEmpty ==
    Scored =>
        /\ (text_a = text_b /\ text_a # <<>>) => scores[1].num = scores[1].den
        /\ \A i \in DOMAIN scores :
              0 <= scores[i].num /\ scores[i].num <= scores[i].den /\ scores[i].den > 0

\* C11 as amended: for every text a that holds at least one non-whitespace
\* character, similarity(a, a) = 1; for all texts the score lies in [0, 1].
C11_ReflexiveWithWords ==
    Scored =>
        /\ (text_a = text_b /\ ~NoWords(text_a)) => scores[1].num = scores[1].den
        /\ \A i \in DOMAIN scores :
              0 <= scores[i].num /\ scores[i].num <= scores[i].den /\ scores[i].den > 0

C11_Witness ==
    /\ Scored
    /\ text_a = <<"A", " ", "b">>
    /\ text_b = text_a
    /\ scores[1] = [num |-> 2, den |-> 2]

\* the positions i of the event list whose event is a failure and is followed
\* by an event with the same tool name
RetryPositions ==
    {i \in 1..(Len(LoadedLogs) - 1) :
        /\ "success" \in DOMAIN LoadedLogs[i]
        /\ LoadedLogs[i].success = Some(FALSE)
        /\ "tool_name" \in DOMAIN LoadedLogs[i]
        /\ "tool_name" \in DOMAIN LoadedLogs[i + 1]
        /\ LoadedLogs[i + 1].tool_name = LoadedLogs[i].tool_name}

RetryReports ==
    {k \in DOMAIN Report.patterns : Report.patterns[k].type = "error_retry"}

\* C14: every position i whose event is a failure and whose next event uses the
\* same tool name gets an error-retry report, also when event i+1 is the last
\* event of the list: there are as many reports as such positions, and each
\* position's tool is reported.
C14_EveryRetryReported ==
    Analyzed =>
        /\ Cardinality(RetryReports) = Cardinality(RetryPositions)
        /\ \A i \in RetryPositions :
              \E k \in RetryReports : Report.patterns[k].tool = LoadedLogs[i].tool_name

ToolNames == {"Read", "Edit"}

\* three consecutive events of logs starting at i all carry a tool name, and the
\* names spell the triple t
WindowAt(logs, i, t) ==
    \A j \in 0..2 :
        /\ "tool_name" \in DOMAIN logs[i + j]
        /\ logs[i + j].tool_name = <<t[j + 1]>>

WindowCount(logs, t) == Cardinality({i \in 1..(Len(logs) - 2) : WindowAt(logs, i, t)})

LowerCased(t) == IF t = "Read" THEN "read" ELSE IF t = "Edit" THEN "edit" ELSE t

\* C15: a triple of tool names is reported iff it fills at least 2 of the windows
\* of three consecutive events that all carry a tool name (overlapping windows
\* counted); it is reported once, with occurrences equal to its window count and
\* a suggested name made of its first and last tool names.
C15_RepeatedTriples ==
    Analyzed =>
        LET logs == LoadedLogs
            patterns == Report.patterns
        IN \A t \in ToolNames \X ToolNames \X ToolNames :
            LET count == WindowCount(logs, t)
                hits == {k \in DOMAIN patterns :
                            /\ patterns[k].type = "tool_sequence"
                            /\ patterns[k].sequence = t}
            IN /\ (count >= 2) <=> (hits # {})
               /\ Cardinality(hits) <= 1
               /\ \A k \in hits :
                    /\ patterns[k].occurrences = count
                    /\ patterns[k].suggested_name =
                            <<LowerCased(t[1]), "_", LowerCased(t[3]), "_flow">>

C15_Witness ==
    /\ Analyzed
    /\ Len(LoadedLogs) = 7
    /\ ~HasTool(LoadedLogs[4])
    /\ Len(Report.patterns) = 1
    /\ Report.patterns[1].sequence = <<"Read", "Read", "Read">>
    /\ Report.patterns[1].occurrences = 2

\* the processed tool_use events of tool t that carry metrics.execution_time
TimedEvents(t) ==
    {i \in DOMAIN arrived :
        /\ arrived[i].event_type = "tool_use"
        /\ "execution_time" \in DOMAIN arrived[i].metrics
        /\ Get(arrived[i].data, "tool_name", "unknown") = t}

\* C17: only tool_use events that carry metrics.execution_time add a sample to a
\* timing history: every history holds exactly one sample per such event of its
\* tool, and a slow-execution finding is emitted only for such an event.
C17_OnlyTimedEventsSampled ==
    /\ \A t \in DOMAIN command_timings :
          Len(command_timings[t]) = Cardinality(TimedEvents(t))
    /\ (Called /\ analysis.performance_issues # <<>>) =>
          "execution_time" \in DOMAIN LastEvent.metrics

HandledTypes == {"tool_use", "agent_complete", "session_end"}

\* C16: processing an event whose event_type is none of tool_use, agent_complete
\* and session_end returns no finding of any kind and leaves every timing and
\* success history unchanged; the event is appended to the Recent-Event Window.
C16_OtherEventsOnlyAppend ==
    [][(Len(arrived') = Len(arrived) + 1
            /\ arrived'[Len(arrived')].event_type \notin HandledTypes) =>
          /\ analysis'.performance_issues = <<>>
          /\ analysis'.error_patterns = <<>>
          /\ analysis'.success_indicators = <<>>
          /\ analysis'.anomalies = <<>>
          /\ command_timings' = command_timings
          /\ agent_success_rates' = agent_success_rates
          /\ recent_events' =
                Append(IF Len(recent_events) < 1000 THEN recent_events ELSE Tail(recent_events),
                       arrived'[Len(arrived')])]_vars

C16_Witness ==
    /\ Called
    /\ Shape(LastEvent) = Notification
    /\ command_timings = [Read |-> Ones(5)]
    /\ agent_success_rates = <<>>
    /\ analysis = NoAnalysis
    /\ Len(recent_events) = 6

\* the events of the window that are session_end events carrying
\* metrics.session_duration
DurationEvents ==
    {i \in DOMAIN recent_events :
        /\ recent_events[i].event_type = "session_end"
        /\ "session_duration" \in DOMAIN recent_events[i].metrics}

\* C13: a duration-anomaly finding is emitted only for a session_end event and
\* only when the Recent-Event Window, the current event included, holds more
\* than 10 session_duration samples; every such finding has severity medium.
C13_AnomalyNeedsSamples ==
    \A i \in DOMAIN analysis.anomalies :
        /\ LastEvent.event_type = "session_end"
        /\ Cardinality(DurationEvents) > 10
        /\ analysis.anomalies[i].severity = "medium"

\* analyze_log_file returned its results dict
Done == returned # None /\ "patterns" \in DOMAIN returned[1]

Results == returned[1]

\* the findings of one category over the whole stream, in event order
RECURSIVE FindingsOf(_, _)
FindingsOf(patterns, category) ==
    IF patterns = <<>> THEN <<>>
    ELSE Head(patterns).analysis[category] \o FindingsOf(Tail(patterns), category)

\* the processed events on which the recurring-error detector raised
RaisingEvents ==
    {i \in DOMAIN arrived :
        /\ arrived[i].event_type = "tool_use"
        /\ "error" \in DOMAIN arrived[i].data
        /\ arrived[i].data.error = NumberValue}

\* C12: when a detector raises on one event of a stream, the stream is not
\* aborted: the analysis does not end in an error, later events can still be
\* processed, and the findings made before the event are still returned.
C12_DetectorFailureContained ==
    RaisingEvents # {} =>
        /\ returned # None => "error" \notin DOMAIN returned[1]
        /\ Done => Results.patterns = analysis_results.patterns

\* C18: every finding of the stream, of each of the four kinds, has a
\* recommendation in the returned results: the results hold at least as many
\* recommendations as findings.
C18_EveryFindingRecommended ==
    Done =>
        Len(Results.recommendations) >=
            Len(FindingsOf(Results.patterns, "performance_issues"))
            + Len(FindingsOf(Results.patterns, "error_patterns"))
            + Len(FindingsOf(Results.patterns, "success_indicators"))
            + Len(FindingsOf(Results.patterns, "anomalies"))

\* C19: the recommendations made from slow-execution findings are, in finding
\* order, one per finding, each with the finding's tool and with priority equal
\* to the finding's severity (medium or high); the recommendations made from
\* recurring-error findings are, in finding order, one per finding, each with
\* priority high.
C19_PriorityFollowsFinding ==
    Done =>
        LET slow == FindingsOf(Results.patterns, "performance_issues")
            recurring == FindingsOf(Results.patterns, "error_patterns")
            fixes == SelectSeq(Results.recommendations,
                        LAMBDA r : r.type = "performance_optimization")
            resolutions == SelectSeq(Results.recommendations,
                        LAMBDA r : r.type = "error_resolution")
        IN /\ Len(fixes) = Len(slow)
           /\ \A k \in DOMAIN slow :
                /\ fixes[k].priority = slow[k].severity
                /\ fixes[k].priority \in {"medium", "high"}
                /\ fixes[k].tool_name = slow[k].tool_name
                /\ fixes[k].recommendation.execution_time = slow[k].execution_time
           /\ Len(resolutions) = Len(recurring)
           /\ \A k \in DOMAIN recurring :
                /\ resolutions[k].priority = "high"
                /\ resolutions[k].tool_name = recurring[k].tool_name
                /\ resolutions[k].recommendation.occurrence_count = recurring[k].occurrence_count

C19_Witness ==
    /\ Done
    /\ Len(Results.recommendations) = 6
    /\ [k \in 1..6 |-> Results.recommendations[k].priority]
            = <<"medium", "medium", "medium", "medium", "high", "high">>
    /\ Results.recommendations[5].recommendation.execution_time = 10
    /\ Results.recommendations[6].type = "error_resolution"

Made == log_event # None

ReadDatetime == event_datetime # None

\* the timestamp of the entry is a text that is no ISO date-time
Malformed ==
    /\ "timestamp" \in DOMAIN log_entry
    /\ log_entry.timestamp # None
    /\ log_entry.timestamp[1] \notin
            {<<"2025-01-01T00:00:00">>, <<"2025-01-01T00:00:00", "Z">>,
             <<"2025-01-01T00:00:00", "+00:00">>}

\* C20: the event made of a raw entry has "unknown" as event_type or session_id
\* when the entry lacks that field, and empty metrics when the entry has no
\* metrics; reading the datetime of an event never raises, and gives a value
\* (the current time) for a malformed timestamp.
C20_MissingFieldsDefaulted ==
    /\ Made =>
        /\ "event_type" \notin DOMAIN log_entry => log_event[1].event_type = <<"unknown">>
        /\ "session_id" \notin DOMAIN log_entry => log_event[1].session_id = <<"unknown">>
        /\ "metrics" \notin DOMAIN log_entry =>
                log_event[1].metrics # <<>> /\ DOMAIN log_event[1].metrics[1] = {}
        /\ log_event[1].data = log_entry
    /\ ReadDatetime =>
        /\ ~event_datetime[1].raised
        /\ event_datetime[1].value # <<>>
        /\ Malformed => event_datetime[1].value.date = "now+1"

C20_Witness ==
    /\ ReadDatetime
    /\ log_entry = [timestamp |-> <<<<"yesterday">>>>]
    /\ log_event[1].event_type = <<"unknown">>
    /\ log_event[1].session_id = <<"unknown">>
    /\ event_datetime[1].value.date = "now+1"

\* the last call was made for a session that has log entries
CalledOnEvents ==
    /\ now > 0
    /\ Get(session_call.event, "session_id", None) \notin {None, Some("")}
    /\ LoadedLogs # <<>>

\* C21: analyze_session completes and returns a report for every event list
\* with missing fields, also for lists that hold two or more failed events of one
\* tool that carry no error text or a null error: no exception leaves the
\* error-cluster, pattern or metrics pass.
C21_MissingFieldsNeverRaise ==
    CalledOnEvents =>
        /\ ~session_call.raised
        /\ Analyzed
        /\ Get(session_call.result, "analyzed", FALSE)


\* the words of a text, case-folded
WordSet(text) == Words([i \in DOMAIN text |-> IF text[i] = "A" THEN "a"
                                              ELSE IF text[i] = "B" THEN "b" ELSE text[i]])

\* the similarity of two texts is above 0.8: they share more than 4/5 of the
\* words that occur in either
Near(x, y) ==
    /\ WordSet(x) # {} /\ WordSet(y) # {}
    /\ 5 * Cardinality(WordSet(x) \cap WordSet(y)) > 4 * Cardinality(WordSet(x) \cup WordSet(y))

\* the tool_use error events among the last 1000 processed events whose error
\* is near the error of the event just processed
NearErrors ==
    {i \in DOMAIN arrived :
        /\ i > Len(arrived) - 1000
        /\ arrived[i].event_type = "tool_use"
        /\ "error" \in DOMAIN arrived[i].data
        /\ arrived[i].data.error # <<>>
        /\ Near(arrived[i].data.error, LastEvent.data.error)}

AgentResults ==
    SelectSeq(arrived, LAMBDA e : /\ e.event_type = "agent_complete"
                                  /\ Get(e.data, "agent_name", "unknown") = LastAgent)

\* C23: for an agent_complete event of an agent with n >= 5 recorded results, a
\* high-success finding is emitted iff more than 80% of the agent's most recent
\* min(n, 10) results are successes (4 of 5 and 8 of 10 do not fire); its
\* sample_size is min(n, 10), and results older than the last 10 have no part.
C23_StreakIffAboveFourFifths ==
    (Called /\ LastEvent.event_type = "agent_complete") =>
        LET results == AgentResults
            n == Len(results)
            m == IF n < 10 THEN n ELSE 10
            wins == Cardinality({i \in (n - m + 1)..n :
                        "success" \in DOMAIN results[i].data /\ results[i].data.success})
            found == analysis.success_indicators
        IN n >= 5 =>
            /\ (5 * wins > 4 * m) <=> (found # <<>>)
            /\ found # <<>> =>
                /\ Len(found) = 1
                /\ found[1].agent_name = LastAgent
                /\ found[1].sample_size = m
                /\ found[1].success_rate = [num |-> wins, den |-> m]

\* 9 of 11 results are successes but only 8 of the last 10: no finding
C23_Witness ==
    /\ Called
    /\ LastEvent.event_type = "agent_complete"
    /\ Len(AgentResults) = 11
    /\ agent_success_rates["planner"] =
            <<TRUE, TRUE, TRUE, TRUE, TRUE, FALSE, FALSE, TRUE, TRUE, TRUE, TRUE>>
    /\ analysis.success_indicators = <<>>


\* five consecutive events of logs starting at i all carry a tool name, and the
\* names are those of tools
RunAt(logs, i, tools) ==
    \A j \in 0..4 :
        /\ "tool_name" \in DOMAIN logs[i + j]
        /\ logs[i + j].tool_name = <<tools[j + 1]>>

\* C24: every workflow record consists of 5 tool-bearing events that are
\* consecutive in the session's event list: an event without a tool name ends
\* the running sequence, so no record holds tools from both sides of it.
C24_WorkflowsAreConsecutive ==
    Analyzed =>
        LET logs == LoadedLogs
            records == Report.tool_sequences
        IN \A k \in DOMAIN records :
            /\ Len(records[k].tools) = 5
            /\ \E i \in 1..(Len(logs) - 4) : RunAt(logs, i, records[k].tools)


\* the positions of the tool-bearing events of logs
ToolPositions(logs) ==
    {i \in DOMAIN logs : "tool_name" \in DOMAIN logs[i] /\ logs[i].tool_name \notin {<<>>, <<"">>}}

\* the execution time of the event at position i of logs, 0 when it has none
TimeAt(logs, i) ==
    IF "execution_time" \in DOMAIN logs[i] THEN logs[i].execution_time[1] ELSE 0

\* C25: the session metrics are consistent: unique_tools <= total_tools_used;
\* error_rate is failed tool-bearing events over tool-bearing events, within
\* [0, 1], and 0 when there are none; longest_operation is present exactly when
\* some tool-bearing event has a non-zero execution time, and is then a
\* tool-bearing event whose time is at least that of every tool-bearing event.
C25_MetricsConsistent ==
    Analyzed =>
        LET logs == LoadedLogs
            metrics == Report.metrics
            tools == ToolPositions(logs)
            failed == {i \in tools : "success" \in DOMAIN logs[i] /\ logs[i].success # <<TRUE>>}
            longest == metrics.longest_operation
        IN /\ metrics.total_tools_used = Cardinality(tools)
           /\ metrics.unique_tools = Cardinality({logs[i].tool_name : i \in tools})
           /\ metrics.unique_tools <= metrics.total_tools_used
           /\ metrics.error_rate.num * Cardinality(tools) = Cardinality(failed) * metrics.error_rate.den
           /\ tools = {} => metrics.error_rate.num = 0
           /\ 0 <= metrics.error_rate.num
           /\ metrics.error_rate.num <= metrics.error_rate.den
           /\ metrics.error_rate.den > 0
           /\ (longest # <<>>) <=> (\E i \in tools : TimeAt(logs, i) # 0)
           /\ longest # <<>> =>
                \E i \in tools :
                    /\ longest[1].tool = logs[i].tool_name
                    /\ longest[1].time = TimeAt(logs, i)
                    /\ \A j \in tools : TimeAt(logs, j) <= TimeAt(logs, i)

\* the longest operation is neither the first tool use nor the slower entry
\* that carries no tool name
C25_Witness ==
    /\ Analyzed
    /\ Len(LoadedLogs) = 4
    /\ TimeAt(LoadedLogs, 1) = 2
    /\ ~HasTool(LoadedLogs[2]) /\ TimeAt(LoadedLogs, 2) = 9
    /\ Report.metrics.longest_operation = <<[tool |-> <<"Edit">>, time |-> 5]>>
    /\ Report.metrics.error_rate = [num |-> 1, den |-> 3]
    /\ Report.metrics.unique_tools = 2


\* the content of the pending-improvements store
Pending(disk) == IF "pending_improvements" \in DOMAIN disk THEN disk.pending_improvements ELSE <<>>

Failures(logs) == {i \in DOMAIN logs : "success" \in DOMAIN logs[i] /\ logs[i].success # <<TRUE>>}

\* two failed events of logs have the same tool and the same error
HasCluster(logs) ==
    \E i, j \in Failures(logs) :
        /\ i < j
        /\ Get(logs[i], "tool_name", <<>>) = Get(logs[j], "tool_name", <<>>)
        /\ Get(logs[i], "error", <<>>) = Get(logs[j], "error", <<>>)

\* C27: a call of analyze_session saves the session's analysis iff the session
\* has at least one pattern (repeated triple or error-retry) or at least one
\* error cluster; a session that only has workflow records is not saved and is
\* reported with patterns_found 0; a request without session_id gets an error
\* result and nothing is saved.
C27_SavedIffMeaningful ==
    [][now' = now + 1 =>
        LET saved == Pending(files') # Pending(files)
            logs == LoadedLogs'
            result == session_call'.result
        IN IF "session_id" \notin DOMAIN session_call'.event
           THEN /\ ~saved
                /\ "error" \in DOMAIN result
                /\ ~result.analyzed
           ELSE /\ saved <=> (detect_patterns(logs) # <<>> \/ HasCluster(logs))
                /\ (/\ find_tool_sequences(logs) # <<>>
                    /\ detect_patterns(logs) = <<>>
                    /\ ~HasCluster(logs)) =>
                      /\ ~saved
                      /\ "patterns_found" \in DOMAIN result
                      /\ result.patterns_found = 0]_vars

----------------------------------------------------------------------------
(* dashboard backend.                                                      *)

\* C29: in every interleaving of connects, disconnects and broadcasts no
\* removal is attempted for a connection that is absent from
\* websocket_connections, and a connection whose disconnect the endpoint has
\* handled is not in the list.
C29_RemovedAtMostOnce ==
    /\ \A removal \in removals : removal.present
    /\ \A ws \in Clients :
          sockets[ws].pc = "ended" =>
             \A i \in DOMAIN websocket_connections : websocket_connections[i] # ws

\* a get_analytics_data call that computed analytics from the log files
Recomputed(call) == call.loaded /\ "timestamp" \in DOMAIN call.result

\* after a result has been cached, two readings of the log files lie 30
\* seconds apart
RecomputeThrottled ==
    \A i, j, k \in DOMAIN calls :
       (i <= j /\ j < k /\ Recomputed(calls[i]) /\ calls[j].loaded /\ calls[k].loaded)
          => calls[k].at - calls[j].at >= CacheSeconds

\* a call less than 30 seconds after the last computation returns its result
CachedReturned ==
    \A i, k \in DOMAIN calls :
       (/\ i < k
        /\ Recomputed(calls[i])
        /\ \A j \in (i + 1)..(k - 1) : ~Recomputed(calls[j])
        /\ calls[k].at - calls[i].at < CacheSeconds)
          => ~calls[k].loaded /\ calls[k].result = calls[i].result

\* two broadcasts lie 30 seconds apart
BroadcastThrottled ==
    \A j, k \in DOMAIN calls :
       (j < k /\ calls[j].caller = "notify_clients" /\ calls[k].caller = "notify_clients")
          => calls[k].at - calls[j].at >= CacheSeconds

\* C28: once a non-empty result is cached, get_analytics_data reads the log
\* files at most once in any 30 seconds, a call less than 30 seconds after the
\* last computation returns the cached result unchanged, and updates are
\* broadcast to the clients at most once per 30 seconds.
C28_RecomputeAndBroadcastThrottled ==
    /\ RecomputeThrottled
    /\ CachedReturned
    /\ BroadcastThrottled

----------------------------------------------------------------------------
(* several log files analysed by one LogAnalyzer.                          *)

\* the findings of a returned result, without the events they were made for
Findings(results) == [i \in DOMAIN results.patterns |-> results.patterns[i].analysis]

\* the shapes of the events after the first a, up to the b-th
ShapesBetween(a, b) == [i \in 1..(b - a) |-> Shape(arrived[a + i])]

\* C30: a later analyze_log_file call on the same LogAnalyzer, and a call for
\* a file that does not exist, leave the timing histories, the success
\* histories and the Recent-Event Window as the earlier calls left them, so
\* the window holds the events of every file analysed so far.
C30_DetectorStateKept ==
    [][/\ Len(arrived') <= RecentMaxLen => recent_events' = arrived'
       /\ Len(earlier_files') > Len(earlier_files) =>
             /\ command_timings' = command_timings
             /\ agent_success_rates' = agent_success_rates
             /\ recent_events' = recent_events]_vars

\* the same file analysed twice by one LogAnalyzer, with findings the second
\* time that differ from those of the first time, when the analyzer was fresh
C30_Witness ==
    /\ Len(earlier_files) = 1
    /\ returned # None
    /\ "patterns" \in DOMAIN returned[1]
    /\ "patterns" \in DOMAIN earlier_files[1].returned
    /\ ShapesBetween(0, FileStart) = ShapesBetween(FileStart, Len(arrived))
    /\ Findings(returned[1]) # Findings(earlier_files[1].returned)

\* a call for a missing file made after events were analysed
C30_NotFoundReached ==
    /\ returned = Some([error |-> "Log file not found"])
    /\ command_timings # <<>>
    /\ recent_events # <<>>

====
